---- MODULE Spec2Model ----
\* Model of utilities/fileSystemHelpers.js: the temp-file helpers, the remote
\* image download and the visual-regression comparison of the test suite.
\*
\* Strings are sequences of one-character strings, so that a template literal is
\* a concatenation whose result can be compared character by character.
\* `undefined` is the model value Undefined.
EXTENDS Integers, Sequences, FiniteSets, TLC

VARIABLES
  now,        \* Date.now(): the millisecond clock
  callA,      \* first recorded call of createUniqueFileName (or NoCall)
  callB,      \* second recorded call of createUniqueFileName (or NoCall)
  fs,         \* the filesystem: path -> content of the file, or NoFile
  faulty,     \* paths on which every filesystem operation fails (EACCES, EIO)
  ret,        \* the last call of a Temp-File Store helper and how it ended
  dl,         \* the calls of downloadImageFromUrlToTempDir: download -> its state
  cmp         \* the calls of getMismatchedPixelsCount: test -> its state

nameVars == <<now, callA, callB>>
fsVars == <<fs, faulty, ret>>
dlVars == <<dl>>
cmpVars == <<cmp>>
vars == <<now, callA, callB, fs, faulty, ret, dl, cmp>>

\* no real string equals it: real strings hold one-character elements
Undefined == <<"undefined">>
NoCall == [made |-> FALSE]
\* testInfo.project when the test info carries none
NoProject == [defined |-> FALSE]
\* content of a path that holds no file
NoFile == <<"nofile">>
NoRet == [op |-> "none"]

----------------------------------------------------------------------------
\* Bounds of the model

\* longest project name drawn as an input
MaxProjLen == 2
\* largest clock value: two-digit timestamps are reached
MaxClock == 10
\* chunks of a response body
NumChunks == 2
\* largest clock value while comparisons run
MaxCmpClock == 1
\* largest mismatched pixel count pixelmatch is taken to return
MaxMismatch == 2

----------------------------------------------------------------------------
\* Strings

ProjChars == {"p", "_", "1"}

DigitChars == <<"0", "1", "2", "3", "4", "5", "6", "7", "8", "9">>

\* String(n) of a non-negative integer, as a template literal formats it
RECURSIVE ToDigits(_)
ToDigits(n) ==
  IF n < 10 THEN <<DigitChars[n + 1]>>
  ELSE ToDigits(n \div 10) \o <<DigitChars[(n % 10) + 1]>>

SeqsUpTo(S, n) == UNION {[1..k -> S] : k \in 0..n}

ProjectNames == SeqsUpTo(ProjChars, MaxProjLen)

\* testInfo objects: a project with a name, or no project at all
TestInfos == {[project |-> [defined |-> TRUE, name |-> p]] : p \in ProjectNames}
             \cup {[project |-> NoProject]}

\* logical file names handed to createUniqueFileName
FileNames == {<<"d">>, <<"1", "_", "d">>}

----------------------------------------------------------------------------
\* createUniqueFileName(testInfo, filename), with timestamp = Date.now()

\* createUniqueFileName without the separator between project name and timestamp
createUniqueFileNameNoSep(testInfo, timestamp, filename) ==
  IF ~testInfo.project.defined THEN Undefined
  ELSE testInfo.project.name \o ToDigits(timestamp) \o <<"_">> \o filename

createUniqueFileName(testInfo, timestamp, filename) ==
  IF ~testInfo.project.defined
    THEN Undefined   \* TypeError caught, logged, nothing returned
    ELSE testInfo.project.name \o <<"_">> \o ToDigits(timestamp) \o <<"_">> \o filename

\* getTempFilePath(fileName): path.join(os.tmpdir(), fileName)
TmpDir == <<"/", "t">>

getTempFilePath(fileName) ==
  IF fileName = Undefined
    THEN Undefined   \* path.join throws on a non-string, caught and logged
    ELSE TmpDir \o <<"/">> \o fileName

----------------------------------------------------------------------------
\* Specification of the naming function: two calls at clock readings

NameCall(testInfo, filename) ==
  [made |-> TRUE, testInfo |-> testInfo, timestamp |-> now, filename |-> filename,
   result |-> createUniqueFileName(testInfo, now, filename)]

\* the variables a specification does not use stay at these values
IdleName == now = 0 /\ callA = NoCall /\ callB = NoCall
IdleFs == fs = << >> /\ faulty = {} /\ ret = NoRet
IdleDl == dl = << >>
IdleCmp == cmp = << >>

InitName ==
  /\ now = 0
  /\ callA = NoCall
  /\ callB = NoCall
  /\ IdleFs
  /\ IdleDl
  /\ IdleCmp

Tick ==
  /\ now < MaxClock
  /\ ~callB.made
  /\ now' = now + 1
  /\ UNCHANGED <<callA, callB, fsVars, dlVars, cmpVars>>

CallA ==
  /\ ~callA.made
  /\ \E ti \in TestInfos, f \in FileNames : callA' = NameCall(ti, f)
  /\ UNCHANGED <<now, callB, fsVars, dlVars, cmpVars>>

CallB ==
  /\ callA.made
  /\ ~callB.made
  /\ \E ti \in TestInfos, f \in FileNames : callB' = NameCall(ti, f)
  /\ UNCHANGED <<now, callA, fsVars, dlVars, cmpVars>>

NextName == Tick \/ CallA \/ CallB

SpecName == InitName /\ [][NextName]_vars

----------------------------------------------------------------------------
\* Temp-File Store helpers over the filesystem
\*
\* The results of the fs library calls: files is the filesystem, flt the set
\* of paths whose operations fail.

\* fs.existsSync(path): never throws, false on any error
existsSync(files, flt, path) ==
  IF path = Undefined \/ path \in flt THEN FALSE
  ELSE files[path] # NoFile

\* fs.unlinkSync(path): "ok", or the error it throws
unlinkSync(files, flt, path) ==
  IF path = Undefined THEN "TypeError"
  ELSE IF path \in flt THEN "EPERM"
  ELSE IF files[path] = NoFile THEN "ENOENT"
  ELSE "ok"

\* fs.readFile(path): "ok", or the error of the callback
readFileErr(files, flt, path) ==
  IF path = Undefined THEN "TypeError"
  ELSE IF path \in flt THEN "EACCES"
  ELSE IF files[path] = NoFile THEN "ENOENT"
  ELSE "ok"

\* fs.writeFile(path, data): "ok", or the error of the callback
writeFileErr(files, flt, path) ==
  IF path = Undefined THEN "TypeError"
  ELSE IF path \in flt THEN "EACCES"
  ELSE "ok"

\* checkFileExists(filePath)
checkFileExists(files, flt, filePath) ==
  IF existsSync(files, flt, filePath)
    THEN [outcome |-> "returned", value |-> TRUE, logged |-> FALSE]
    ELSE [outcome |-> "returned", value |-> FALSE, logged |-> FALSE]

\* deleteTempFile without the try/catch around unlinkSync
deleteTempFileNoCatch(files, flt, filePath) ==
  LET e == unlinkSync(files, flt, filePath) IN
  IF e = "ok"
    THEN [outcome |-> "returned", unlinked |-> TRUE, logged |-> FALSE,
          fs |-> [files EXCEPT ![filePath] = NoFile]]
    ELSE [outcome |-> "threw", unlinked |-> FALSE, logged |-> FALSE, fs |-> files]

\* deleteTempFile(filePath): the outcome and the filesystem it leaves
deleteTempFile(files, flt, filePath) ==
  LET e == unlinkSync(files, flt, filePath) IN
  IF e = "ok"
    THEN [outcome |-> "returned", unlinked |-> TRUE, logged |-> FALSE,
          fs |-> [files EXCEPT ![filePath] = NoFile]]
    ELSE [outcome |-> "returned", unlinked |-> FALSE, logged |-> TRUE, fs |-> files]

\* readFile with a catch block that rethrows after logging
readFileRethrow(files, flt, filePath) ==
  IF readFileErr(files, flt, filePath) = "ok"
    THEN [outcome |-> "resolved", value |-> files[filePath], logged |-> FALSE]
    ELSE [outcome |-> "rejected", value |-> Undefined, logged |-> TRUE]

\* readFile(filePath): how the returned promise settles
readFile(files, flt, filePath) ==
  IF readFileErr(files, flt, filePath) = "ok"
    THEN [outcome |-> "resolved", value |-> files[filePath], logged |-> FALSE]
    ELSE [outcome |-> "resolved", value |-> Undefined, logged |-> TRUE]

\* writeFile(filePath, data): how the returned promise settles, and the
\* filesystem it leaves
writeFile(files, flt, filePath, data) ==
  IF writeFileErr(files, flt, filePath) = "ok"
    THEN [outcome |-> "resolved", value |-> Undefined, logged |-> FALSE,
          fs |-> [files EXCEPT ![filePath] = data]]
    ELSE [outcome |-> "resolved", value |-> Undefined, logged |-> TRUE, fs |-> files]

----------------------------------------------------------------------------
\* Specification of the helpers: calls on a filesystem in any state

FsPaths == {getTempFilePath(<<"m">>), getTempFilePath(<<"n">>)}
FsArgs == FsPaths \cup {Undefined}
Buffers == {<<"x">>, <<"y">>}

InitFs ==
  /\ fs \in [FsPaths -> Buffers \cup {NoFile}]
  /\ faulty \in SUBSET FsPaths
  /\ ret = NoRet
  /\ IdleName
  /\ IdleDl
  /\ IdleCmp

\* the environment: a path starts or stops failing
FsFault ==
  /\ \E p \in FsPaths :
       faulty' = IF p \in faulty THEN faulty \ {p} ELSE faulty \cup {p}
  /\ UNCHANGED <<fs, ret, nameVars, dlVars, cmpVars>>

FsCheckFileExists ==
  /\ \E p \in FsArgs :
       ret' = [op |-> "checkFileExists", path |-> p, fsBefore |-> fs,
               faultyBefore |-> faulty, res |-> checkFileExists(fs, faulty, p)]
  /\ UNCHANGED <<fs, faulty, nameVars, dlVars, cmpVars>>

FsDeleteTempFile ==
  /\ \E p \in FsArgs :
       LET r == deleteTempFile(fs, faulty, p) IN
       /\ ret' = [op |-> "deleteTempFile", path |-> p, fsBefore |-> fs,
                  faultyBefore |-> faulty, res |-> r]
       /\ fs' = r.fs
  /\ UNCHANGED <<faulty, nameVars, dlVars, cmpVars>>

FsReadFile ==
  /\ \E p \in FsArgs :
       ret' = [op |-> "readFile", path |-> p, fsBefore |-> fs,
               faultyBefore |-> faulty, res |-> readFile(fs, faulty, p)]
  /\ UNCHANGED <<fs, faulty, nameVars, dlVars, cmpVars>>

FsWriteFile ==
  /\ \E p \in FsArgs, d \in Buffers :
       LET r == writeFile(fs, faulty, p, d) IN
       /\ ret' = [op |-> "writeFile", path |-> p, fsBefore |-> fs,
                  faultyBefore |-> faulty, res |-> r]
       /\ fs' = r.fs
  /\ UNCHANGED <<faulty, nameVars, dlVars, cmpVars>>

NextFs == FsFault \/ FsCheckFileExists \/ FsDeleteTempFile \/ FsReadFile \/ FsWriteFile

SpecFs == InitFs /\ [][NextFs]_vars

----------------------------------------------------------------------------
\* downloadImageFromUrlToTempDir(url)

Downloads == {1, 2}

StatusCodes == {199, 200, 204, 299, 300, 404}

ImagePng == <<"i", "m", "a", "g", "e", "/", "p", "n", "g">>
TextHtml == <<"t", "e", "x", "t", "/", "h", "t", "m", "l">>
\* holds image/ but not at the start
XImagePng == <<"x">> \o ImagePng
\* Undefined: the response carries no content-type header
ContentTypes == {ImagePng, TextHtml, XImagePng, Undefined}

\* /^image\//.test(header): an absent header is tested as the text "undefined"
ImagePrefix == <<"i", "m", "a", "g", "e", "/">>

testImagePrefix(header) ==
  /\ header # Undefined
  /\ Len(header) >= Len(ImagePrefix)
  /\ SubSeq(header, 1, Len(ImagePrefix)) = ImagePrefix

\* the validation without the content-type test
responseAcceptedStatusOnly(statusCode, contentType) ==
  ~(statusCode < 200 \/ statusCode >= 300)

\* the condition under which the response callback goes on to stream the body
responseAccepted(statusCode, contentType) ==
  ~(statusCode < 200 \/ statusCode >= 300 \/ ~testImagePrefix(contentType))

\* the path every download writes to
DownloadPath == getTempFilePath(<<"t", "e", "s", "t", "_", "p", "i", "c", "t", "u", "r", "e", ".", "j", "p", "g">>)

\* content of a file a write stream has opened
StreamData == <<"data">>

NewDownload ==
  [pc |-> "idle",            \* idle, requested, streaming, done
   statusCode |-> 0, contentType |-> Undefined,
   filePath |-> Undefined,
   promise |-> "pending",    \* pending, resolved, rejected
   value |-> Undefined,      \* what the promise settled with
   open |-> "none",          \* the write stream: none, pending, open, failed, closed
   written |-> 0,            \* chunks written to the file
   errored |-> FALSE,        \* a stream error has happened
   cbPending |-> FALSE,      \* the pipeline callback has still to report the error
   unlinks |-> 0,            \* fs.unlink calls issued and not yet run
   logged |-> FALSE,
   created |-> FALSE,        \* the write stream of this call created a file
   observed |-> FALSE,       \* the caller has seen the promise settle
   existedWhenObserved |-> FALSE]

\* reject(error): a settled promise stays as it is
rejectWith(d, error) ==
  IF d.promise = "pending"
    THEN [d EXCEPT !.promise = "rejected", !.value = error]
    ELSE d

\* cleanupAndReject(error): fs.unlink is issued, the error logged, the promise
\* rejected; the unlink itself runs later
cleanupAndReject(d, error) ==
  rejectWith([d EXCEPT !.unlinks = @ + 1, !.logged = TRUE], error)

InitDownload ==
  /\ dl = [d \in Downloads |-> NewDownload]
  /\ fs = [p \in {DownloadPath} |-> NoFile]
  /\ faulty \in SUBSET {DownloadPath}
  /\ ret = NoRet
  /\ IdleName
  /\ IdleCmp

\* https.get(url, callback)
DlRequest(d) ==
  /\ dl[d].pc = "idle"
  /\ dl' = [dl EXCEPT ![d].pc = "requested"]
  /\ UNCHANGED <<fsVars, nameVars, cmpVars>>

\* the request's 'error' handler
DlRequestError(d) ==
  /\ dl[d].pc = "requested"
  /\ dl' = [dl EXCEPT ![d] =
              rejectWith([@ EXCEPT !.pc = "done", !.logged = TRUE], <<"ECONNRESET">>)]
  /\ UNCHANGED <<fsVars, nameVars, cmpVars>>

\* the response callback
DlResponse(d) ==
  /\ dl[d].pc = "requested"
  /\ \E sc \in StatusCodes, ct \in ContentTypes :
       LET got == [dl[d] EXCEPT !.statusCode = sc, !.contentType = ct] IN
       IF ~responseAccepted(sc, ct)
         THEN dl' = [dl EXCEPT ![d] =
                       rejectWith([got EXCEPT !.pc = "done"], <<"status">>)]
         ELSE dl' = [dl EXCEPT ![d] =
                       [got EXCEPT !.pc = "streaming", !.filePath = DownloadPath,
                                   !.open = "pending"]]
  /\ UNCHANGED <<fsVars, nameVars, cmpVars>>

\* the write stream's open completes: the file exists, empty; a stream destroyed
\* in the meantime is closed at once
DlOpen(d) ==
  /\ dl[d].open = "pending"
  /\ dl[d].filePath \notin faulty
  /\ fs' = [fs EXCEPT ![dl[d].filePath] = StreamData]
  /\ dl' = [dl EXCEPT ![d].open = IF dl[d].errored THEN "closed" ELSE "open",
                      ![d].created = TRUE]
  /\ UNCHANGED <<faulty, ret, nameVars, cmpVars>>

\* the write stream's open fails: fileStream emits 'error'
DlOpenError(d) ==
  /\ dl[d].open = "pending"
  /\ dl[d].filePath \in faulty
  /\ dl' = [dl EXCEPT ![d] =
              cleanupAndReject([@ EXCEPT !.open = "failed", !.errored = TRUE,
                                         !.cbPending = IF dl[d].errored THEN @ ELSE TRUE],
                               <<"EACCES">>)]
  /\ UNCHANGED <<fsVars, nameVars, cmpVars>>

\* a chunk of the body reaches the file
DlChunk(d) ==
  /\ dl[d].pc = "streaming"
  /\ dl[d].open = "open"
  /\ ~dl[d].errored
  /\ dl[d].written < NumChunks
  /\ dl' = [dl EXCEPT ![d].written = @ + 1]
  /\ UNCHANGED <<fsVars, nameVars, cmpVars>>

\* the response emits 'error' (the connection breaks): the handler attached to
\* the response runs, pipeline destroys the write stream
DlResponseError(d) ==
  /\ dl[d].pc = "streaming"
  /\ ~dl[d].errored
  /\ dl' = [dl EXCEPT ![d] =
              cleanupAndReject([@ EXCEPT !.errored = TRUE, !.cbPending = TRUE,
                                         !.open = IF @ = "open" THEN "closed" ELSE @],
                               <<"ECONNRESET">>)]
  /\ UNCHANGED <<fsVars, nameVars, cmpVars>>

\* the pipeline callback, with the error
DlPipelineError(d) ==
  /\ dl[d].pc = "streaming"
  /\ dl[d].cbPending
  /\ dl' = [dl EXCEPT ![d] =
              cleanupAndReject([@ EXCEPT !.cbPending = FALSE, !.pc = "done"],
                               <<"pipeline">>)]
  /\ UNCHANGED <<fsVars, nameVars, cmpVars>>

\* the pipeline callback, without an error: resolve(filePath)
DlFinish(d) ==
  /\ dl[d].pc = "streaming"
  /\ dl[d].open = "open"
  /\ ~dl[d].errored
  /\ dl[d].written = NumChunks
  /\ dl' = [dl EXCEPT ![d].pc = "done", ![d].open = "closed",
                      ![d].promise = "resolved", ![d].value = dl[d].filePath]
  /\ UNCHANGED <<fsVars, nameVars, cmpVars>>

\* an issued fs.unlink(filePath, () => {}) runs; its error is ignored
DlUnlink(d) ==
  /\ dl[d].unlinks > 0
  /\ dl' = [dl EXCEPT ![d].unlinks = @ - 1]
  /\ fs' = IF unlinkSync(fs, faulty, dl[d].filePath) = "ok"
             THEN [fs EXCEPT ![dl[d].filePath] = NoFile]
             ELSE fs
  /\ UNCHANGED <<faulty, ret, nameVars, cmpVars>>

\* the caller's continuation runs on the settled promise
DlObserve(d) ==
  /\ dl[d].promise # "pending"
  /\ ~dl[d].observed
  /\ dl' = [dl EXCEPT ![d].observed = TRUE,
                      ![d].existedWhenObserved = (fs[DownloadPath] # NoFile)]
  /\ UNCHANGED <<fsVars, nameVars, cmpVars>>

NextDownload ==
  \E d \in Downloads :
    \/ DlRequest(d)
    \/ DlRequestError(d)
    \/ DlResponse(d)
    \/ DlOpen(d)
    \/ DlOpenError(d)
    \/ DlChunk(d)
    \/ DlResponseError(d)
    \/ DlPipelineError(d)
    \/ DlFinish(d)
    \/ DlUnlink(d)
    \/ DlObserve(d)

SpecDownload == InitDownload /\ [][NextDownload]_vars

----------------------------------------------------------------------------
\* getMismatchedPixelsCount(actualScreenshotPath, testInfo, sharedContext)

\* one comparison at a time: the calls of concurrent tests share nothing but
\* the temp directory
Tests == {1}

BrowserTypes == {"chromium", "firefox", "webkit"}
\* sharedContext._options.isMobile: true, false, or not set
MobileFlags == {"true", "false", "undefined"}

DefaultBaselinePath == <<".", "/", "b">>
WebkitMobileBaselinePath == <<".", "/", "b", "W", "M">>
BaselinePaths == {DefaultBaselinePath, WebkitMobileBaselinePath}

\* the screenshot each test hands in
ActualPath(t) == getTempFilePath(<<"a">> \o ToDigits(t))
\* the project the test runs in
TestInfoOf(t) == [project |-> [defined |-> TRUE, name |-> <<"p">>]]
DiffFileName == <<"d", "i", "f", "f", ".", "p", "n", "g">>
DiffPaths ==
  {getTempFilePath(createUniqueFileName(TestInfoOf(t), ts, DiffFileName)) :
     t \in Tests, ts \in 0..MaxCmpClock}

ComparePaths == BaselinePaths \cup {ActualPath(t) : t \in Tests} \cup DiffPaths

\* file contents: a well-formed PNG, bytes that are no PNG, a PNG being written
PngData == <<"png">>
Garbage == <<"garbage">>
Partial == <<"partial">>

\* the value the returned promise resolves with
ResUndefined == [defined |-> FALSE]
ResCount(n) == [defined |-> TRUE, n |-> n]

\* the selection on the mobile flag alone, without the browser test
selectBaselineMobileOnly(defaultBrowserType, mobileFlag) ==
  IF mobileFlag = "true"
    THEN WebkitMobileBaselinePath
    ELSE DefaultBaselinePath

\* isMobile = sharedContext._options.isMobile || false, and the baseline chosen
selectBaseline(defaultBrowserType, mobileFlag) ==
  LET isMobile == IF mobileFlag = "true" THEN TRUE ELSE FALSE IN
  IF isMobile /\ defaultBrowserType = "webkit"
    THEN WebkitMobileBaselinePath
    ELSE DefaultBaselinePath

\* PNG.sync.read(fs.readFileSync(path)) returns, rather than throws
pngReadable(files, path) == files[path] = PngData

\* the condition with >= in place of >
diffWantedAlways(mismatchedPixelsCount) == mismatchedPixelsCount >= 0

\* if (mismatchedPixelsCount > 0)
diffWanted(mismatchedPixelsCount) == mismatchedPixelsCount > 0

NewCompare ==
  [pc |-> "idle",     \* idle, resize, attachExpected, attachActual, attachDiff,
                      \* attached, done
   defaultBrowserType |-> "none", mobileFlag |-> "none",
   expectedBaselinePath |-> Undefined,
   count |-> -1,             \* mismatchedPixelsCount, -1 before pixelmatch ran
   diffImagePath |-> Undefined,
   promise |-> "pending",    \* pending, resolved, rejected
   value |-> ResUndefined,
   threw |-> FALSE,          \* an exception reached the catch block
   logged |-> FALSE,
   stream |-> "none",        \* the diff write stream: none, pending, open, finished
   creates |-> 0,            \* files the diff write stream created
   events |-> << >>]         \* what the call and its write stream did, in order

\* a catch block that rethrows after logging
catchBlockRethrow(c) ==
  [c EXCEPT !.pc = "done", !.threw = TRUE, !.logged = TRUE,
            !.promise = "rejected", !.value = ResUndefined]

\* catch (error) { console.error(...) }: the async function returns undefined
catchBlock(c) ==
  [c EXCEPT !.pc = "done", !.threw = TRUE, !.logged = TRUE,
            !.promise = "resolved", !.value = ResUndefined]

Log(c, e) == [c EXCEPT !.events = Append(@, e)]

\* lines 162-192 from pixelmatch to the first await or the return: the new
\* state of the call and of the filesystem
compareAndReport(c, t, files, mismatchedPixelsCount) ==
  LET c1 == [c EXCEPT !.count = mismatchedPixelsCount] IN
  IF diffWanted(mismatchedPixelsCount)
    THEN LET diffImageName == createUniqueFileName(TestInfoOf(t), now, DiffFileName)
             diffImagePath == getTempFilePath(diffImageName)
         IN [c |-> Log([c1 EXCEPT !.diffImagePath = diffImagePath,
                                  !.stream = "pending",
                                  !.pc = "attachExpected"], "writeDataToFile"),
             fs |-> files]
    ELSE LET r == deleteTempFile(files, {}, ActualPath(t))
         IN [c |-> Log([c1 EXCEPT !.pc = "done", !.promise = "resolved",
                                  !.value = ResCount(mismatchedPixelsCount),
                                  !.logged = r.logged], "deleteActual"),
             fs |-> r.fs]

InitCompare ==
  /\ cmp = [t \in Tests |-> NewCompare]
  /\ \E base \in [BaselinePaths -> {PngData, NoFile}],
        act \in [{ActualPath(t) : t \in Tests} -> {PngData, Garbage, NoFile}] :
       fs = [p \in ComparePaths |->
               IF p \in BaselinePaths THEN base[p]
               ELSE IF p \in DOMAIN act THEN act[p]
               ELSE NoFile]
  /\ faulty = {}
  /\ ret = NoRet
  /\ IdleName
  /\ IdleDl

\* a millisecond passes
CmpTick ==
  /\ now < MaxCmpClock
  /\ now' = now + 1
  /\ UNCHANGED <<callA, callB, fsVars, dlVars, cmpVars>>

\* the call, up to its first await or its return (lines 126-178)
CmpCall(t) ==
  /\ cmp[t].pc = "idle"
  /\ \E b \in BrowserTypes, m \in MobileFlags, sameSize \in BOOLEAN,
        k \in 0..MaxMismatch :
       LET c0 == [cmp[t] EXCEPT !.defaultBrowserType = b, !.mobileFlag = m,
                                !.expectedBaselinePath = selectBaseline(b, m)]
       IN IF ~pngReadable(fs, c0.expectedBaselinePath)
             \/ ~pngReadable(fs, ActualPath(t))
            THEN /\ cmp' = [cmp EXCEPT ![t] = catchBlock(c0)]
                 /\ fs' = fs
            ELSE IF ~sameSize
              THEN /\ cmp' = [cmp EXCEPT ![t] = [c0 EXCEPT !.pc = "resize"]]
                   /\ fs' = fs
              ELSE LET r == compareAndReport(c0, t, fs, k) IN
                   /\ cmp' = [cmp EXCEPT ![t] = r.c]
                   /\ fs' = r.fs
  /\ UNCHANGED <<faulty, ret, nameVars, dlVars>>

\* sharp's toBuffer settles: the resized buffer is decoded and compared, or
\* the rejection is caught
CmpResized(t) ==
  /\ cmp[t].pc = "resize"
  /\ \/ \E k \in 0..MaxMismatch :
          LET r == compareAndReport(cmp[t], t, fs, k) IN
          /\ cmp' = [cmp EXCEPT ![t] = r.c]
          /\ fs' = r.fs
     \/ /\ cmp' = [cmp EXCEPT ![t] = catchBlock(cmp[t])]
        /\ fs' = fs
  /\ UNCHANGED <<faulty, ret, nameVars, dlVars>>

\* testInfo.attach reads the file at imagePath; it rejects when there is none,
\* and the rejection is caught. Otherwise the call moves to pc next.
attachImage(c, files, imagePath, event, next) ==
  IF files[imagePath] = NoFile
    THEN catchBlock(c)
    ELSE Log([c EXCEPT !.pc = next],
             IF files[imagePath] = Partial THEN event \o "Partial" ELSE event)

CmpAttachExpected(t) ==
  /\ cmp[t].pc = "attachExpected"
  /\ cmp' = [cmp EXCEPT ![t] =
               attachImage(@, fs, cmp[t].expectedBaselinePath, "attachExpected",
                           "attachActual")]
  /\ UNCHANGED <<fsVars, nameVars, dlVars>>

CmpAttachActual(t) ==
  /\ cmp[t].pc = "attachActual"
  /\ cmp' = [cmp EXCEPT ![t] =
               attachImage(@, fs, ActualPath(t), "attachActual", "attachDiff")]
  /\ UNCHANGED <<fsVars, nameVars, dlVars>>

CmpAttachDiff(t) ==
  /\ cmp[t].pc = "attachDiff"
  /\ cmp' = [cmp EXCEPT ![t] =
               attachImage(@, fs, cmp[t].diffImagePath, "attachDiff", "attached")]
  /\ UNCHANGED <<fsVars, nameVars, dlVars>>

\* after the third await: both temp files are deleted, the count returned
\* (lines 181-192)
CmpCleanup(t) ==
  /\ cmp[t].pc = "attached"
  /\ LET r1 == deleteTempFile(fs, {}, cmp[t].diffImagePath)
         r2 == deleteTempFile(r1.fs, {}, ActualPath(t))
     IN /\ fs' = r2.fs
        /\ cmp' = [cmp EXCEPT ![t] =
                     Log(Log([@ EXCEPT !.pc = "done", !.promise = "resolved",
                                       !.value = ResCount(cmp[t].count),
                                       !.logged = r1.logged \/ r2.logged],
                             "deleteDiff"), "deleteActual")]
  /\ UNCHANGED <<faulty, ret, nameVars, dlVars>>

\* the diff write stream's open completes: the file exists, empty
CmpStreamOpen(t) ==
  /\ cmp[t].stream = "pending"
  /\ fs' = [fs EXCEPT ![cmp[t].diffImagePath] = Partial]
  /\ cmp' = [cmp EXCEPT ![t] = Log([@ EXCEPT !.stream = "open", !.creates = @ + 1],
                                   "streamOpen")]
  /\ UNCHANGED <<faulty, ret, nameVars, dlVars>>

\* the packed PNG has been written and the stream ends; a file unlinked in the
\* meantime stays unlinked
CmpStreamFinish(t) ==
  /\ cmp[t].stream = "open"
  /\ fs' = IF fs[cmp[t].diffImagePath] = NoFile THEN fs
           ELSE [fs EXCEPT ![cmp[t].diffImagePath] = PngData]
  /\ cmp' = [cmp EXCEPT ![t] = Log([@ EXCEPT !.stream = "finished"], "streamFinish")]
  /\ UNCHANGED <<faulty, ret, nameVars, dlVars>>

NextCompare ==
  \/ CmpTick
  \/ \E t \in Tests :
       \/ CmpCall(t)
       \/ CmpResized(t)
       \/ CmpAttachExpected(t)
       \/ CmpAttachActual(t)
       \/ CmpAttachDiff(t)
       \/ CmpCleanup(t)
       \/ CmpStreamOpen(t)
       \/ CmpStreamFinish(t)

SpecCompare == InitCompare /\ [][NextCompare]_vars

\* C1 as stated: once getMismatchedPixelsCount has resolved, on every path, the
\* actual-screenshot temp path does not exist.
ActualDeletedOnEveryPath ==
  \A t \in Tests :
    cmp[t].pc = "done" => fs[ActualPath(t)] = NoFile

\* C2: a diff temp file is created if and only if the mismatched pixel count is
\* greater than 0: with no count or a count of 0 no diff name is generated, no
\* write stream is started and no diff file exists; with a count greater than 0
\* one diff path is generated, one write stream started, and that stream
\* creates exactly one file, once.
DiffOnlyOnMismatch ==
  \A t \in Tests :
    LET c == cmp[t]
        n(e) == Cardinality({i \in DOMAIN c.events : c.events[i] = e})
    IN /\ c.count <= 0 =>
            /\ c.diffImagePath = Undefined
            /\ c.stream = "none"
            /\ c.creates = 0
            /\ n("writeDataToFile") = 0
            /\ \A p \in DiffPaths : fs[p] = NoFile
       /\ c.count > 0 =>
            /\ c.diffImagePath \in DiffPaths
            /\ c.stream # "none"
            /\ n("writeDataToFile") = 1
            /\ c.creates = n("streamOpen")
            /\ c.creates = IF c.stream \in {"open", "finished"} THEN 1 ELSE 0
            /\ \A p \in DiffPaths \ {c.diffImagePath} : fs[p] = NoFile

\* a comparison with mismatches has returned and its stream created one file
DiffOnlyOnMismatchWitness ==
  \E t \in Tests :
    /\ cmp[t].pc = "done"
    /\ cmp[t].count > 0
    /\ ~cmp[t].threw
    /\ cmp[t].creates = 1
    /\ cmp[t].stream = "finished"

MismatchStepsInOrder ==
  \A t \in Tests :
    (cmp[t].pc = "done" /\ cmp[t].count > 0 /\ ~cmp[t].threw) =>
      /\ cmp[t].events = <<"writeDataToFile", "streamOpen", "streamFinish",
                           "attachExpected", "attachActual", "attachDiff",
                           "deleteDiff", "deleteActual">>
      /\ cmp[t].stream = "finished"
      /\ fs[cmp[t].diffImagePath] = NoFile

\* C11: the baseline is a function of the (browser engine, mobile flag) pair
\* alone, with two outcomes: the mobile+webkit baseline if and only if the flag
\* is true and the engine is webkit, the default baseline for every other pair,
\* a flag that is not set included; whatever the filesystem and the clock, the
\* chosen path stays the same for the rest of the call, and choosing it
\* changes no file.
BaselineSelection ==
  \A t \in Tests :
    LET c == cmp[t] IN
    /\ c.pc = "idle" => c.expectedBaselinePath = Undefined
    /\ c.pc # "idle" =>
         /\ c.defaultBrowserType \in BrowserTypes
         /\ c.mobileFlag \in MobileFlags
         /\ c.expectedBaselinePath \in BaselinePaths
         /\ c.expectedBaselinePath = WebkitMobileBaselinePath
              <=> (c.mobileFlag = "true" /\ c.defaultBrowserType = "webkit")
         /\ c.expectedBaselinePath = DefaultBaselinePath
              <=> (c.mobileFlag # "true" \/ c.defaultBrowserType # "webkit")
         /\ \A b \in BaselinePaths : fs[b] \in {PngData, NoFile}

\* a mobile webkit call chose the mobile+webkit baseline and went on to compare
BaselineSelectionWitness ==
  \E t \in Tests :
    /\ cmp[t].pc = "done"
    /\ cmp[t].defaultBrowserType = "webkit"
    /\ cmp[t].mobileFlag = "true"
    /\ cmp[t].expectedBaselinePath = WebkitMobileBaselinePath
    /\ cmp[t].count >= 0

\* a response has arrived for the download and the validation must refuse it
RefusedResponse(d) ==
  /\ dl[d].statusCode # 0
  /\ \/ dl[d].statusCode \notin 200..299
     \/ dl[d].contentType \in {TextHtml, XImagePng, Undefined}

\* C3: a response whose status code is outside [200,300) or whose content-type
\* does not start with image/ rejects the download, which never resolves with a
\* path, opens no write stream and creates no file; while no download has had
\* an accepted response the temp directory holds no download file.
FetchValidation ==
  /\ \A d \in Downloads :
       RefusedResponse(d) =>
         /\ dl[d].promise = "rejected"
         /\ dl[d].pc = "done"
         /\ dl[d].filePath = Undefined
         /\ dl[d].open = "none"
         /\ ~dl[d].created
         /\ dl[d].unlinks = 0
  /\ (\A d \in Downloads : dl[d].pc \in {"idle", "requested"} \/ RefusedResponse(d))
       => fs[DownloadPath] = NoFile

\* one download was refused for its status 404, the other for text/html with
\* status 200
FetchValidationWitness ==
  /\ dl[1].statusCode = 404
  /\ dl[1].contentType = ImagePng
  /\ dl[1].promise = "rejected"
  /\ dl[2].statusCode = 200
  /\ dl[2].contentType = TextHtml
  /\ dl[2].promise = "rejected"
  /\ dl[2].observed
  /\ fs[DownloadPath] = NoFile

\* C4 as stated: when a stream error occurs during a download, the temp path
\* does not exist at the moment the caller observes the rejection.
StreamErrorCleanedBeforeReject ==
  \A d \in Downloads :
    (dl[d].observed /\ dl[d].promise = "rejected" /\ dl[d].errored)
      => ~dl[d].existedWhenObserved

\* C5 as stated: two in-flight operations that produce temp files use distinct
\* temp paths.
InFlightPathsDistinct ==
  \A d1, d2 \in Downloads :
    (d1 # d2 /\ dl[d1].pc = "streaming" /\ dl[d2].pc = "streaming")
      => dl[d1].filePath # dl[d2].filePath

\* the underlying read or write of the last helper call failed
IoFailed ==
  \/ ret.op = "readFile" /\ readFileErr(ret.fsBefore, ret.faultyBefore, ret.path) # "ok"
  \/ ret.op = "writeFile" /\ writeFileErr(ret.fsBefore, ret.faultyBefore, ret.path) # "ok"

DeleteAndExistsNeverRaise ==
  /\ ret.op = "deleteTempFile" =>
       /\ ret.res.outcome = "returned"
       /\ (ret.path = Undefined \/ ret.path \in ret.faultyBefore
           \/ ret.fsBefore[ret.path] = NoFile)
            => (fs = ret.fsBefore /\ ret.res.logged /\ ~ret.res.unlinked)
       /\ ret.res.unlinked =>
            /\ ret.fsBefore[ret.path] # NoFile
            /\ fs[ret.path] = NoFile
            /\ checkFileExists(fs, faulty, ret.path).value = FALSE
            /\ \A q \in FsPaths \ {ret.path} : fs[q] = ret.fsBefore[q]
  /\ ret.op = "checkFileExists" =>
       /\ ret.res.outcome = "returned"
       /\ ret.res.value \in BOOLEAN
       /\ ret.res.value = TRUE <=>
            (/\ ret.path \in FsPaths
             /\ ret.path \notin ret.faultyBefore
             /\ ret.fsBefore[ret.path] \in Buffers)
       /\ fs = ret.fsBefore

\* deleteTempFile was called on a path already removed and returned normally
DeleteAndExistsWitness ==
  /\ ret.op = "deleteTempFile"
  /\ ret.path \in FsPaths
  /\ ret.path \notin ret.faultyBefore
  /\ ret.fsBefore[ret.path] = NoFile
  /\ ret.res.outcome = "returned"
  /\ ret.res.logged

\* C8: two calls with the same logical filename and project names (any pair,
\* underscores and digits included) whose timestamps differ return
\* different names.
UniqueAcrossTimestamps ==
  (/\ callA.made
   /\ callB.made
   /\ callA.testInfo.project.defined
   /\ callB.testInfo.project.defined
   /\ callA.filename = callB.filename
   /\ callA.timestamp # callB.timestamp)
  => callA.result # callB.result

\* two calls, project names with an underscore and a digit, one-digit and
\* two-digit timestamps
UniqueAcrossTimestampsWitness ==
  /\ callA.made
  /\ callB.made
  /\ callA.testInfo.project.defined
  /\ callB.testInfo.project.defined
  /\ callA.testInfo.project.name = <<"p", "_">>
  /\ callB.testInfo.project.name = <<"_", "1">>
  /\ callA.filename = callB.filename
  /\ callA.timestamp = 1
  /\ callB.timestamp = 10
  /\ callA.result # callB.result

====
